---------------------------- MODULE Spec2Model ----------------------------
(***************************************************************************)
(* mosaic-core: the tag-set buffer (src/tag_set.rs) and the password       *)
(* envelope of a secret key (src/keys.rs).                                 *)
(*                                                                         *)
(* Two state machines share the module.  Spec drives the tag set: a raw    *)
(* buffer handed to TagSet::from_bytes, an OwnedTagSet grown by add_tag,   *)
(* and a TagSetIter walking either.  SpecKeys drives EncryptedSecretKey:   *)
(* from_secret_key, from_printable and to_secret_key.                      *)
(*                                                                         *)
(* Bytes are naturals in 0..255, buffers are sequences of bytes (1-based,  *)
(* so the Rust offset p is the TLA+ index p + 1).                          *)
(***************************************************************************)
EXTENDS Naturals, Sequences, FiniteSets

VARIABLES
    scenario,   \* "wire": an untrusted buffer is parsed; "build": an OwnedTagSet is grown
    input,      \* the &[u8] handed to TagSet::from_bytes
    owned,      \* OwnedTagSet.0, the Vec<u8>
    added,      \* history: the tags appended to owned since it was constructed
    res,        \* the last Result of TagSet::from_bytes and what it was applied to
    iter,       \* the live TagSetIter (bytes, p), or NoIter
    yielded,    \* history: the tags the live iterator has returned
    last_op,    \* the last OwnedTagSet operation
    esk,        \* the EncryptedSecretKey at hand (its Vec<u8>), or NoKey
    origin,     \* history: how esk was obtained
    dec         \* the last Result of to_secret_key and the password it was given

tagVars == <<scenario, input, owned, added, res, iter, yielded, last_op>>
keyVars == <<esk, origin, dec>>
vars == <<scenario, input, owned, added, res, iter, yielded, last_op, esk, origin, dec>>

---------------------------------------------------------------------------
(* Bounds of the model *)

\* longest raw buffer handed to from_bytes
MaxInputLen == 9
\* most tags appended to one OwnedTagSet
MaxTags == 3

\* byte values of the raw buffers: 4 and 5 are the low length bytes of the
\* two shortest records, 0 is the high length byte and a length below 4
ByteVals == {0, 4, 5}

ByteSeqs == UNION {[1..n -> ByteVals] : n \in 0..MaxInputLen}

---------------------------------------------------------------------------
(* Tag: one record, [len:2 LE][type:2 LE][payload: len - 4] *)

HEADER_LEN == 4
U16_MAX == 65535

Err(e) == [ok |-> FALSE, err |-> e]

u16_le(lo, hi) == lo + 256 * hi

\* Tag::from_bytes: a view of input[..len], or EndOfInput when the header is
\* incomplete, the declared length overruns the input, or is below 4
Tag_from_bytes(bytes) ==
    IF Len(bytes) < HEADER_LEN THEN Err("EndOfInput")
    ELSE LET len == u16_le(bytes[1], bytes[2]) IN
         IF len > Len(bytes) \/ len < HEADER_LEN THEN Err("EndOfInput")
         ELSE [ok |-> TRUE, tag |-> SubSeq(bytes, 1, len)]

Tag_as_bytes(tag) == tag

Tag_get_type(tag) == u16_le(tag[3], tag[4])

Tag_data_bytes(tag) == SubSeq(tag, HEADER_LEN + 1, Len(tag))

\* OwnedTag::new: the header followed by the payload verbatim
OwnedTag_new(ty, payload) ==
    LET len == HEADER_LEN + Len(payload) IN
    IF len > U16_MAX THEN Err("TagTooLong")
    ELSE [ok |-> TRUE,
          tag |-> <<len % 256, len \div 256, ty % 256, ty \div 256>> \o payload]

\* the tags appended in the "build" scenario
TagTypes == {1, 259}
Payloads == {<<>>, <<7>>, <<3, 4, 5>>}
Tags == {OwnedTag_new(ty, pl).tag : ty \in TagTypes, pl \in Payloads}

TagSeqs == UNION {[1..n -> Tags] : n \in 0..MaxTags}

---------------------------------------------------------------------------
(* TagSet::from_bytes *)

\* &input[p..]; slicing from beyond the end panics
SliceFrom(bytes, p) == SubSeq(bytes, p + 1, Len(bytes))

RECURSIVE from_bytes_loop(_, _)
from_bytes_loop(in, p) ==
    IF p > Len(in) THEN Err("panic")
    ELSE LET r == Tag_from_bytes(SliceFrom(in, p)) IN
         IF ~r.ok THEN Err(r.err)
         ELSE LET q == p + Len(Tag_as_bytes(r.tag)) IN
              IF Len(in) = q THEN [ok |-> TRUE, set |-> in]
              ELSE from_bytes_loop(in, q)

\* mutant: a parse error after at least one complete record ends the loop
\* with success, leaving the rest of the buffer unread
RECURSIVE lenient_loop(_, _)
lenient_loop(in, p) ==
    LET r == Tag_from_bytes(SliceFrom(in, p)) IN
    IF ~r.ok THEN (IF p > 0 THEN [ok |-> TRUE, set |-> in] ELSE Err(r.err))
    ELSE LET q == p + Len(Tag_as_bytes(r.tag)) IN
         IF Len(in) = q THEN [ok |-> TRUE, set |-> in]
         ELSE lenient_loop(in, q)

TagSet_from_bytes_lenient(in) ==
    IF Len(in) < 3 THEN Err("EndOfInput") ELSE lenient_loop(in, 0)

\* mutant: the end-of-buffer test comes before the record parse and there is
\* no length gate, so the loop body never runs on an empty buffer
RECURSIVE while_loop(_, _)
while_loop(in, p) ==
    IF Len(in) = p THEN [ok |-> TRUE, set |-> in]
    ELSE LET r == Tag_from_bytes(SliceFrom(in, p)) IN
         IF ~r.ok THEN Err(r.err)
         ELSE while_loop(in, p + Len(Tag_as_bytes(r.tag)))

TagSet_from_bytes_while(in) == while_loop(in, 0)

TagSet_from_bytes(in) ==
    IF Len(in) < 3 THEN Err("EndOfInput") ELSE from_bytes_loop(in, 0)

---------------------------------------------------------------------------
(* OwnedTagSet *)

OwnedTagSet_new == <<>>

\* mutant: the record is inserted at the front of the buffer
add_tag_front(self, tag) == Tag_as_bytes(tag) \o self

\* mutant: only the payload is appended, the header is left out
add_tag_payload(self, tag) == self \o Tag_data_bytes(tag)

\* Vec::extend with the tag's bytes
add_tag(self, tag) == self \o Tag_as_bytes(tag)

RECURSIVE from_tags_loop(_, _)
from_tags_loop(tag_set, input_tags) ==
    IF input_tags = <<>> THEN tag_set
    ELSE from_tags_loop(add_tag(tag_set, Head(input_tags)), Tail(input_tags))

\* mutant: the input is consumed from its end
RECURSIVE from_tags_rev_loop(_, _)
from_tags_rev_loop(tag_set, input_tags) ==
    IF input_tags = <<>> THEN tag_set
    ELSE from_tags_rev_loop(add_tag(tag_set, input_tags[Len(input_tags)]),
                            SubSeq(input_tags, 1, Len(input_tags) - 1))

OwnedTagSet_from_tags_rev(input_tags) == from_tags_rev_loop(OwnedTagSet_new, input_tags)

OwnedTagSet_from_tags(input_tags) == from_tags_loop(OwnedTagSet_new, input_tags)

---------------------------------------------------------------------------
(* TagSetIter *)

NoIter == [live |-> FALSE]

\* TagSet::iter
TagSet_iter(bytes) ==
    [live |-> TRUE, bytes |-> bytes, p |-> 0, done |-> FALSE, panicked |-> FALSE]

\* mutant: the cursor advances by the header length, not the record length
TagSetIter_next_header(it) ==
    IF it.p >= Len(it.bytes) THEN [it |-> [it EXCEPT !.done = TRUE], item |-> <<>>]
    ELSE LET r == Tag_from_bytes(SliceFrom(it.bytes, it.p)) IN
         IF ~r.ok THEN [it |-> [it EXCEPT !.panicked = TRUE], item |-> <<>>]
         ELSE [it |-> [it EXCEPT !.p = it.p + HEADER_LEN], item |-> <<r.tag>>]

\* TagSetIter::next: the iterator after the call and the Option returned
\* (<<>> for None, <<tag>> for Some(tag)); the unwrap of a failed parse panics
TagSetIter_next(it) ==
    IF it.p >= Len(it.bytes) THEN [it |-> [it EXCEPT !.done = TRUE], item |-> <<>>]
    ELSE LET r == Tag_from_bytes(SliceFrom(it.bytes, it.p)) IN
         IF ~r.ok THEN [it |-> [it EXCEPT !.panicked = TRUE], item |-> <<>>]
         ELSE [it |-> [it EXCEPT !.p = it.p + Len(Tag_as_bytes(r.tag))],
               item |-> <<r.tag>>]

---------------------------------------------------------------------------
(* The tag-set machine *)

NoRes == [on |-> "none"]
NoKey == [some |-> FALSE]

KeysIdle == esk = NoKey /\ origin = "none" /\ dec = [done |-> FALSE]

Init ==
    /\ scenario \in {"wire", "build"}
    /\ input \in (IF scenario = "wire" THEN ByteSeqs ELSE {<<>>})
    /\ owned = OwnedTagSet_new
    /\ added = <<>>
    /\ res = NoRes
    /\ iter = NoIter
    /\ yielded = <<>>
    /\ last_op = [op |-> "new", n |-> 0]
    /\ KeysIdle

\* TagSet::from_bytes(input)
FromBytes ==
    /\ scenario = "wire"
    /\ res = NoRes
    /\ res' = [on |-> "input", r |-> TagSet_from_bytes(input)]
    /\ UNCHANGED <<scenario, input, owned, added, iter, yielded, last_op>>
    /\ UNCHANGED keyVars

\* TagSet::from_bytes(owned.as_bytes())
FromBytesOwned ==
    /\ scenario = "build"
    /\ res' = [on |-> "owned", r |-> TagSet_from_bytes(owned)]
    /\ res' # res
    /\ UNCHANGED <<scenario, input, owned, added, iter, yielded, last_op>>
    /\ UNCHANGED keyVars

\* OwnedTagSet::add_tag(tag); the &mut borrow ends every iterator and view
AddTag(tag) ==
    /\ scenario = "build"
    /\ Len(added) < MaxTags
    /\ owned' = add_tag(owned, tag)
    /\ added' = Append(added, tag)
    /\ last_op' = [op |-> "add_tag", tag |-> tag, n |-> Len(added) + 1]
    /\ res' = NoRes
    /\ iter' = NoIter
    /\ yielded' = <<>>
    /\ UNCHANGED <<scenario, input>>
    /\ UNCHANGED keyVars

\* OwnedTagSet::from_tags(input_tags): an associated function that starts
\* from its own new(), taken where the set at hand is the fresh one
FromTags(input_tags) ==
    /\ scenario = "build"
    /\ last_op.op = "new"
    /\ owned' = OwnedTagSet_from_tags(input_tags)
    /\ added' = input_tags
    /\ last_op' = [op |-> "from_tags", n |-> Len(input_tags)]
    /\ res' = NoRes
    /\ iter' = NoIter
    /\ yielded' = <<>>
    /\ UNCHANGED <<scenario, input>>
    /\ UNCHANGED keyVars

\* TagSet::iter on the view from_bytes returned, or on the OwnedTagSet (Deref)
Iter ==
    /\ \/ scenario = "wire" /\ res.on = "input" /\ res.r.ok
          /\ iter' = TagSet_iter(res.r.set)
       \/ scenario = "build"
          /\ iter' = TagSet_iter(owned)
    /\ iter' # iter
    /\ yielded' = <<>>
    /\ UNCHANGED <<scenario, input, owned, added, res, last_op>>
    /\ UNCHANGED keyVars

\* TagSetIter::next
IterNext ==
    /\ iter.live
    /\ ~iter.done
    /\ ~iter.panicked
    /\ LET n == TagSetIter_next(iter) IN
         /\ iter' = n.it
         /\ yielded' = yielded \o n.item
    /\ UNCHANGED <<scenario, input, owned, added, res, last_op>>
    /\ UNCHANGED keyVars

Next ==
    \/ FromBytes
    \/ FromBytesOwned
    \/ \E tag \in Tags : AddTag(tag)
    \/ \E input_tags \in TagSeqs : FromTags(input_tags)
    \/ Iter
    \/ IterNext

Spec == Init /\ [][Next]_vars

---------------------------------------------------------------------------
(* EncryptedSecretKey: [version:1][log_n:1][salt:16][masked key:32] *)

ENVELOPE_LEN == 50
VERSION == 1
SALT_AT == 2
MASKED_AT == 18
KEY_LEN == 32
USIZE_BITS == 64
HMAC_BLOCK == 64

RECURSIVE xor8(_, _)
xor8(a, b) ==
    IF a = 0 THEN b
    ELSE IF b = 0 THEN a
    ELSE ((a + b) % 2) + 2 * xor8(a \div 2, b \div 2)

\* symmetric_key.iter_mut().zip(other.iter()).for_each(|(x1, x2)| *x1 ^= *x2)
xor_zip(symmetric_key, other) ==
    [i \in 1..Len(symmetric_key) |->
        IF i <= Len(other) THEN xor8(symmetric_key[i], other[i]) ELSE symmetric_key[i]]

\* &v[a..b]
Slice(v, a, b) == SubSeq(v, a + 1, b)

\* scrypt::Params::new(log_n, 8, 1, 32): a cost exponent that does not fit
\* the word is refused
Params_new(log_n) ==
    IF log_n < USIZE_BITS THEN [ok |-> TRUE, log_n |-> log_n] ELSE Err("InvalidParams")

\* the key HMAC-SHA256 works with: a password shorter than the block is
\* padded with zero bytes to the block length (every password of the model
\* is shorter)
HmacKey(password) == password \o [i \in 1..(HMAC_BLOCK - Len(password)) |-> 0]

\* scrypt::scrypt(password, salt, params, key): a deterministic function of
\* the HMAC key of the password (PBKDF2-HMAC-SHA256 reads the password only
\* as that key), the salt and the cost; the hash is abstracted to a mixing
\* function that tells apart the inputs the model draws
scrypt(password, salt, params) ==
    LET k == HmacKey(password) IN
    [i \in 1..KEY_LEN |->
        (k[i] + 3 * k[i + KEY_LEN] + 5 * salt[((i - 1) % Len(salt)) + 1]
            + 7 * i * params.log_n + i) % 256]

\* mutant: the key is derived before the salt is written, from the zeroed buffer
from_secret_key_late_salt(secret_key, password, log_n, rng_salt) ==
    LET zeroed == [i \in 1..(MASKED_AT - SALT_AT) |-> 0]
        params == Params_new(log_n) IN
    IF ~params.ok THEN Err(params.err)
    ELSE [ok |-> TRUE,
          esk |-> <<VERSION, log_n>> \o rng_salt
                    \o xor_zip(scrypt(password, zeroed, params), secret_key)]

\* EncryptedSecretKey::from_secret_key; rng_salt is what the csprng fills
\* output[2..18] with
from_secret_key(secret_key, password, log_n, rng_salt) ==
    LET output == <<VERSION, log_n>> \o rng_salt \o [i \in 1..KEY_LEN |-> 0]
        salt == Slice(output, SALT_AT, MASKED_AT)
        params == Params_new(log_n) IN
    IF ~params.ok THEN Err(params.err)
    ELSE [ok |-> TRUE,
          esk |-> Slice(output, 0, MASKED_AT)
                    \o xor_zip(scrypt(password, salt, params), secret_key)]

\* mutant: the salt is read one byte early, from [1..17)
to_secret_key_salt_off(self, password) ==
    IF Len(self) # ENVELOPE_LEN THEN Err("BadEncryptedSecretKey")
    ELSE IF self[1] # VERSION
    THEN [ok |-> FALSE, err |-> "UnsupportedEncryptedSecretKeyVersion", byte |-> self[1]]
    ELSE LET params == Params_new(self[2]) IN
         IF ~params.ok THEN Err(params.err)
         ELSE [ok |-> TRUE,
               key |-> xor_zip(scrypt(password, Slice(self, SALT_AT - 1, MASKED_AT - 1), params),
                               Slice(self, MASKED_AT, ENVELOPE_LEN))]

\* mutant: the version is looked at only after the cost parameter was accepted
to_secret_key_version_late(self, password) ==
    IF Len(self) # ENVELOPE_LEN THEN Err("BadEncryptedSecretKey")
    ELSE LET params == Params_new(self[2]) IN
         IF ~params.ok THEN Err(params.err)
         ELSE IF self[1] # VERSION
         THEN [ok |-> FALSE, err |-> "UnsupportedEncryptedSecretKeyVersion", byte |-> self[1]]
         ELSE [ok |-> TRUE,
               key |-> xor_zip(scrypt(password, Slice(self, SALT_AT, MASKED_AT), params),
                               Slice(self, MASKED_AT, ENVELOPE_LEN))]

\* EncryptedSecretKey::to_secret_key
to_secret_key(self, password) ==
    IF Len(self) # ENVELOPE_LEN THEN Err("BadEncryptedSecretKey")
    ELSE IF self[1] # VERSION
    THEN [ok |-> FALSE, err |-> "UnsupportedEncryptedSecretKeyVersion", byte |-> self[1]]
    ELSE LET log_n == self[2]
             salt == Slice(self, SALT_AT, MASKED_AT)
             params == Params_new(log_n) IN
         IF ~params.ok THEN Err(params.err)
         ELSE [ok |-> TRUE,
               key |-> xor_zip(scrypt(password, salt, params),
                               Slice(self, MASKED_AT, ENVELOPE_LEN))]

---------------------------------------------------------------------------
(* The printable form: a prefix and a z-base-32 body.  A string is a record
   of the prefix it starts with and the symbols after it, each symbol its
   index in the z-base-32 alphabet, or 32 for a character outside of it. *)

Z32_SYMBOLS == 32

Pow2(n) == CASE n = 0 -> 1 [] n = 1 -> 2 [] n = 2 -> 4 [] n = 3 -> 8
             [] n = 4 -> 16 [] n = 5 -> 32 [] n = 6 -> 64 [] n = 7 -> 128

\* bit m (from 0, most significant first) of a sequence of w-bit units
BitAt(units, w, m) ==
    IF m \div w >= Len(units) THEN 0
    ELSE (units[(m \div w) + 1] \div Pow2(w - 1 - (m % w))) % 2

RECURSIVE Gather(_, _, _, _)
\* the n bits from bit m on, as a number
Gather(units, w, m, n) ==
    IF n = 0 THEN 0
    ELSE 2 * Gather(units, w, m, n - 1) + BitAt(units, w, m + n - 1)

\* z32::encode: five bits a symbol, the last symbol padded with zero bits
z32_encode(bytes) ==
    [j \in 1..((8 * Len(bytes) + 4) \div 5) |-> Gather(bytes, 8, 5 * (j - 1), 5)]

\* z32::decode: the whole bytes the symbols hold, or an error on a
\* character outside the alphabet
z32_decode(symbols) ==
    IF \E j \in 1..Len(symbols) : symbols[j] >= Z32_SYMBOLS THEN Err("Z32")
    ELSE [ok |-> TRUE,
          bytes |-> [i \in 1..((5 * Len(symbols)) \div 8) |->
                        Gather(symbols, 5, 8 * (i - 1), 8)]]

\* EncryptedSecretKey::printable
printable(self) == [prefix |-> "mocryptsec0", body |-> z32_encode(self)]

\* EncryptedSecretKey::from_printable: no length is asked of the bytes
from_printable(s) ==
    IF s.prefix # "mocryptsec0" THEN Err("InvalidPrintable")
    ELSE LET bytes == z32_decode(s.body) IN
         IF ~bytes.ok THEN Err(bytes.err)
         ELSE [ok |-> TRUE, esk |-> bytes.bytes]

---------------------------------------------------------------------------
(* The envelope machine *)

SecretKeys ==
    { [i \in 1..KEY_LEN |-> 0],
      [i \in 1..KEY_LEN |-> (i * 37) % 256],
      [i \in 1..KEY_LEN |-> 255 - i] }

\* UTF-8 bytes of "a", "b", "ab" and "a\0"
Passwords == {<<97>>, <<98>>, <<97, 98>>, <<97, 0>>}

\* what the csprng hands out
Salts == { [i \in 1..(MASKED_AT - SALT_AT) |-> 0],
           [i \in 1..(MASKED_AT - SALT_AT) |-> (i * 11 + 5) % 256] }

\* the test's cost, a low cost, and one that Params::new refuses
LogNs == {1, 18, 200}

SampleKey == [i \in 1..KEY_LEN |-> (i * 37) % 256]
SampleEnvelope ==
    from_secret_key(SampleKey, <<97>>, 18, [i \in 1..(MASKED_AT - SALT_AT) |-> 0]).esk

\* byte strings printed by some peer: an envelope, the same with another
\* version byte, with another version and a refused cost, one byte longer,
\* a stub and nothing
PrintedBytes ==
    { SampleEnvelope,
      [SampleEnvelope EXCEPT ![1] = 2],
      [SampleEnvelope EXCEPT ![1] = 0, ![2] = 200],
      [SampleEnvelope EXCEPT ![1] = 2] \o <<0>>,
      <<2, 18, 0>>,
      <<1>>,
      <<>> }

PrintableInputs ==
    {printable(e) : e \in PrintedBytes}
        \cup { [prefix |-> "mosec0", body |-> z32_encode(SampleKey)],
               [prefix |-> "mocryptsec0", body |-> <<0, 32, 5>>] }

NoDec == [done |-> FALSE]

TagsIdle ==
    /\ scenario = "build"
    /\ input = <<>>
    /\ owned = OwnedTagSet_new
    /\ added = <<>>
    /\ res = NoRes
    /\ iter = NoIter
    /\ yielded = <<>>
    /\ last_op = [op |-> "new", n |-> 0]

InitKeys ==
    /\ TagsIdle
    /\ esk = NoKey
    /\ origin = "none"
    /\ dec = NoDec

\* EncryptedSecretKey::from_secret_key(secret_key, password, log_n, csprng)
FromSecretKey(secret_key, password, log_n, rng_salt) ==
    /\ LET r == from_secret_key(secret_key, password, log_n, rng_salt) IN
         /\ esk' = IF r.ok THEN [some |-> TRUE, bytes |-> r.esk] ELSE NoKey
         /\ origin' = [via |-> "from_secret_key", ok |-> r.ok, k |-> secret_key,
                       password |-> password, log_n |-> log_n, salt |-> rng_salt]
    /\ dec' = NoDec
    /\ UNCHANGED tagVars

\* EncryptedSecretKey::from_printable(s)
FromPrintable(s) ==
    /\ LET r == from_printable(s) IN
         /\ esk' = IF r.ok THEN [some |-> TRUE, bytes |-> r.esk] ELSE NoKey
         /\ origin' = [via |-> "from_printable", ok |-> r.ok, s |-> s]
    /\ dec' = NoDec
    /\ UNCHANGED tagVars

\* esk.to_secret_key(password)
ToSecretKey(password) ==
    /\ esk.some
    /\ dec' = [done |-> TRUE, password |-> password,
               r |-> to_secret_key(esk.bytes, password)]
    /\ UNCHANGED <<esk, origin>>
    /\ UNCHANGED tagVars

NextKeys ==
    \/ \E k \in SecretKeys, pw \in Passwords, log_n \in LogNs, salt \in Salts :
           FromSecretKey(k, pw, log_n, salt)
    \/ \E s \in PrintableInputs : FromPrintable(s)
    \/ \E pw \in Passwords : ToSecretKey(pw)

SpecKeys == InitKeys /\ [][NextKeys]_vars

---------------------------------------------------------------------------
(* What the claims are stated with *)

\* seg is exactly one well-formed record
IsRecord(seg) == Len(seg) >= HEADER_LEN /\ u16_le(seg[1], seg[2]) = Len(seg)

\* bytes is zero or more records laid back to back: it is empty, or some
\* prefix of it is one record and the rest is again such a concatenation
RECURSIVE IsConcatOfRecords(_)
IsConcatOfRecords(bytes) ==
    \/ bytes = <<>>
    \/ \E k \in HEADER_LEN..Len(bytes) :
           /\ IsRecord(SubSeq(bytes, 1, k))
           /\ IsConcatOfRecords(SubSeq(bytes, k + 1, Len(bytes)))

RECURSIVE Flatten(_)
Flatten(tags) == IF tags = <<>> THEN <<>> ELSE Head(tags) \o Flatten(Tail(tags))

\* the offset in the buffer of the i-th tag of tags
Offset(tags, i) == Len(Flatten(SubSeq(tags, 1, i - 1)))

IsPrefix(s, t) == Len(s) <= Len(t) /\ s = SubSeq(t, 1, Len(s))

---------------------------------------------------------------------------
(* C1: TagSet::from_bytes accepts a buffer only if it is one or more
   well-formed records laid back to back from offset 0 to its end, and it
   rejects a buffer that is such a concatenation followed by one more byte. *)
C1_ExactConcatenation ==
    res.on = "input" =>
        /\ res.r.ok => (Len(input) > 0 /\ IsConcatOfRecords(input) /\ res.r.set = input)
        /\ (Len(input) > 1 /\ IsConcatOfRecords(SubSeq(input, 1, Len(input) - 1)))
               => ~res.r.ok

\* a two-record buffer followed by one byte has been parsed
C1_Witness ==
    /\ res.on = "input"
    /\ Len(input) > 2 * HEADER_LEN
    /\ IsConcatOfRecords(SubSeq(input, 1, Len(input) - 1))
    /\ ~res.r.ok

(* C2: from_bytes succeeds on the bytes of every OwnedTagSet built by new()
   and add_tag calls, the empty one included, and those bytes are zero or
   more complete records. *)
C2_OwnedAlwaysParses ==
    res.on = "owned" => (res.r.ok /\ IsConcatOfRecords(owned))

(* C3: a fresh iterator over an OwnedTagSet built by add_tag calls yields
   the appended tags in insertion order, equal in type and payload, and then
   None; an iterator over a buffer from_bytes accepted yields the records in
   buffer order, each with the type and payload its bytes encode. *)
C3_IterationOrder ==
    iter.live =>
        /\ ~iter.panicked
        /\ scenario = "build" =>
            /\ IsPrefix(yielded, added)
            /\ \A i \in 1..Len(yielded) :
                   /\ Tag_get_type(yielded[i]) = Tag_get_type(added[i])
                   /\ Tag_data_bytes(yielded[i]) = Tag_data_bytes(added[i])
            /\ iter.done => yielded = added
            /\ (yielded = added /\ ~iter.done) => TagSetIter_next(iter).item = <<>>
        /\ scenario = "wire" =>
            /\ \A i \in 1..Len(yielded) :
                   LET off == Offset(yielded, i) IN
                   /\ Tag_get_type(yielded[i]) = u16_le(input[off + 3], input[off + 4])
                   /\ Tag_data_bytes(yielded[i])
                          = SubSeq(input, off + HEADER_LEN + 1,
                                   off + u16_le(input[off + 1], input[off + 2]))
            /\ iter.done => Flatten(yielded) = input

\* three appended tags, not all alike, have been yielded and None returned
C3_Witness ==
    /\ scenario = "build"
    /\ iter.live /\ iter.done
    /\ Len(yielded) = 3
    /\ yielded[1] # yielded[2]
    /\ yielded[2] # yielded[3]
    /\ Len(Tag_data_bytes(yielded[1])) > 0

(* C7: from_tags(tags) produces the buffer that new() followed by add_tag
   for each tag in order produces, the tags' bytes in input order. *)
C7_FromTagsIsNewThenAdd ==
    /\ last_op.op \in {"new", "add_tag"} => owned = OwnedTagSet_from_tags(added)
    /\ last_op.op = "from_tags" => owned = Flatten(added)

\* two different tags have been appended one call at a time
C7_Witness ==
    /\ last_op.op = "add_tag"
    /\ Len(added) >= 2
    /\ added[1] # added[2]

(* C8: add_tag leaves the buffer it found as a prefix of the buffer it
   leaves, which is longer by the tag's encoded length and ends with the
   tag's encoded bytes. *)
C8_AddTagStep ==
    (last_op' # last_op /\ last_op'.op = "add_tag") =>
        LET t == last_op'.tag IN
        /\ Len(owned') = Len(owned) + Len(Tag_as_bytes(t))
        /\ SubSeq(owned', 1, Len(owned)) = owned
        /\ SubSeq(owned', Len(owned) + 1, Len(owned')) = Tag_as_bytes(t)
        /\ input' = input

C8_AddTagAppendsOnly == [][C8_AddTagStep]_vars

\* a tag with a payload was appended to a buffer that already held two
C8_Witness ==
    /\ last_op.op = "add_tag"
    /\ last_op.n = 3
    /\ Len(Tag_data_bytes(last_op.tag)) > 0
    /\ Len(owned) > Len(Tag_as_bytes(last_op.tag))

(* C9: from_bytes fails with EndOfInput on every buffer of length 0, 1, 2
   or 3. *)
C9_ShortBufferRejected ==
    (res.on = "input" /\ Len(input) < HEADER_LEN) =>
        (~res.r.ok /\ res.r.err = "EndOfInput")

\* a 3-byte buffer, which the length gate lets through, has been parsed
C9_Witness == res.on = "input" /\ Len(input) = 3 /\ ~res.r.ok

(* C10: iterating a buffer from_bytes accepted never panics; the cursor
   grows by at least 4 with every tag yielded and never passes the end of
   the buffer; None is returned only at the end of the buffer, by when the
   yielded tags' bytes, in order, are the whole buffer. *)
C10_Inv ==
    (scenario = "wire" /\ iter.live) =>
        /\ ~iter.panicked
        /\ iter.bytes = input
        /\ iter.p <= Len(iter.bytes)
        /\ HEADER_LEN * Len(yielded) <= iter.p
        /\ Flatten(yielded) = SubSeq(iter.bytes, 1, iter.p)
        /\ iter.done => (iter.p = Len(iter.bytes) /\ Flatten(yielded) = input)

C10_Step ==
    (scenario = "wire" /\ iter.live /\ iter'.live) =>
        /\ Len(yielded') = Len(yielded) + 1 => iter'.p >= iter.p + HEADER_LEN
        /\ (iter'.done /\ ~iter.done /\ iter'.p = iter.p) => yielded' = yielded

C10_IterationTotal == [](C10_Inv) /\ [][C10_Step]_vars

\* a two-record buffer has been iterated to the end
C10_Witness ==
    /\ scenario = "wire"
    /\ iter.live /\ iter.done
    /\ Len(yielded) = 2
    /\ Len(input) > 2 * HEADER_LEN

\* the envelope at hand came out of from_secret_key and was then decrypted
DecryptedOwn == dec.done /\ origin.via = "from_secret_key" /\ origin.ok

(* C4: an envelope made by from_secret_key(k, p, cost, rng) decrypts with
   the same password p to Ok with a key equal to k. *)
C4_RoundTrip ==
    (DecryptedOwn /\ dec.password = origin.password) =>
        (dec.r.ok /\ dec.r.key = origin.k)

\* a non-zero key under a non-zero salt at the test's cost made the round trip
C4_Witness ==
    /\ DecryptedOwn
    /\ dec.password = origin.password
    /\ origin.log_n = 18
    /\ origin.salt[1] # 0
    /\ origin.k[1] # 0
    /\ dec.r.ok

(* C5, as claimed: decrypting with another password than the one the
   envelope was made with returns Ok and a key different from k. *)
C5_WrongPasswordDiffers ==
    (DecryptedOwn /\ dec.password # origin.password) =>
        (dec.r.ok /\ dec.r.key # origin.k)

(* C5, amended: decrypting with another password returns Ok, and the key
   returned differs from k exactly when scrypt derives different keys from
   the two passwords under the envelope's salt and cost. *)
C5_WrongPasswordOk ==
    (DecryptedOwn /\ dec.password # origin.password) =>
        /\ dec.r.ok
        /\ (dec.r.key # origin.k) <=>
               (scrypt(dec.password, origin.salt, Params_new(origin.log_n))
                    # scrypt(origin.password, origin.salt, Params_new(origin.log_n)))

\* another password was tried and gave another key, without an error
C5_Witness ==
    /\ DecryptedOwn
    /\ dec.password # origin.password
    /\ dec.r.ok
    /\ dec.r.key # origin.k

(* C6, as claimed: to_secret_key on any envelope whose first byte is not 1
   fails with UnsupportedVersion carrying that byte. *)
C6_VersionGuardAnyLength ==
    (dec.done /\ Len(esk.bytes) >= 1 /\ esk.bytes[1] # VERSION) =>
        /\ ~dec.r.ok
        /\ dec.r.err = "UnsupportedEncryptedSecretKeyVersion"
        /\ dec.r.byte = esk.bytes[1]

(* C6, amended: to_secret_key on a 50-byte envelope whose first byte is not
   1 fails with UnsupportedVersion carrying that byte, for every password;
   on an envelope of any other length it fails with BadEncryptedSecretKey,
   whatever the first byte. *)
C6_VersionGuard ==
    dec.done =>
        /\ (Len(esk.bytes) = ENVELOPE_LEN /\ esk.bytes[1] # VERSION) =>
               /\ ~dec.r.ok
               /\ dec.r.err = "UnsupportedEncryptedSecretKeyVersion"
               /\ dec.r.byte = esk.bytes[1]
        /\ Len(esk.bytes) # ENVELOPE_LEN =>
               (~dec.r.ok /\ dec.r.err = "BadEncryptedSecretKey")

\* a 50-byte envelope read from text, with version byte 0 and a cost that
\* scrypt refuses, was decrypted
C6_Witness ==
    /\ dec.done
    /\ origin.via = "from_printable"
    /\ Len(esk.bytes) = ENVELOPE_LEN
    /\ esk.bytes[1] = 0
    /\ esk.bytes[2] = 200

\* outside HMAC's zero padding the model's scrypt tells passwords apart
ScryptCollidesOnlyByPadding ==
    \A p1, p2 \in Passwords, salt \in Salts :
        (scrypt(p1, salt, Params_new(18)) = scrypt(p2, salt, Params_new(18)))
            <=> (HmacKey(p1) = HmacKey(p2))

\* text printed from an envelope reads back as the same bytes
PrintableRoundTrip ==
    \A e \in PrintedBytes : from_printable(printable(e)) = [ok |-> TRUE, esk |-> e]

=============================================================================
